---- MODULE Spec2Model ----
(***************************************************************************)
(* PropertyPulse dashboard (src/app.py): a Streamlit script that a host   *)
(* process re-executes from its first line on every user interaction.     *)
(* The model follows one script execution per session: loading the model  *)
(* artifacts, the Predict-button handler (feature vector, prediction, ROI  *)
(* projection, environmental profile drawn from numpy's process-global     *)
(* generator), the market statistics and the popular-locations chart.      *)
(* format_price and the ROI projection are also exercised on their own     *)
(* over bounded input sets.                                                *)
(*                                                                         *)
(* Conventions.  Python strings are sequences of one-character strings.    *)
(* Python's None / an unset local is the empty sequence, a set value v is   *)
(* <<v>>.  Sequences are 1-based: the source's x[0], x[1], x[2] are x[1],  *)
(* x[2], x[3] here.  Money held by the sessions is an integer number of    *)
(* hundredths.                                                             *)
(***************************************************************************)
EXTENDS Integers, Sequences, FiniteSets, TLC

VARIABLES
  host,     \* "serial": script executions one at a time; "threaded": interleaved
  disk,     \* the model pickle and columns.json as found on disk
  loads,    \* how many times load_model has been executed by the process
  npState,  \* numpy's process-global legacy generator (np.random)
  run,      \* per session: the current script execution's widgets and locals
  probe     \* a single call of a pure function: its argument and its result

vars == <<host, disk, loads, npState, run, probe>>

\* ------------------------------------------------------------------ bounds

\* Sessions (browser tabs) served by the one host process.
NumSessions == 2
\* Script executions (user interactions) the process serves in a behaviour.
MaxRuns == 2
\* Interleaved executions are explored for the first NumLocations select-box
\* options; serial ones for all twenty.
NumLocations == 3
\* format_price is probed on the floats k/8 for |k| <= MaxEighths.
MaxEighths == 40
\* project-value probes: prices 1 .. MaxProbePrice (whole units) besides 1,000,000.
MaxProbePrice == 60

Sessions == 1..NumSessions

None == <<>>
Some(v) == <<v>>
IsSet(o) == o # <<>>
Val(o) == o[1]

\* ------------------------------------------------------------ characters

Alphabet ==
  << "a","b","c","d","e","f","g","h","i","j","k","l","m",
     "n","o","p","q","r","s","t","u","v","w","x","y","z" >>

\* ord(c) for the characters that occur in column names (src/app.py:298).
Ord(c) ==
  CASE c = " " -> 32
    [] c = "." -> 46
    [] c = "_" -> 95
    [] OTHER   -> 96 + (CHOOSE i \in 1..26 : Alphabet[i] = c)

RECURSIVE SumOrd(_)
\* sum(ord(c) for c in location)  (src/app.py:298)
SumOrd(s) == IF s = <<>> THEN 0 ELSE Ord(Head(s)) + SumOrd(Tail(s))

\* ------------------------------------------------------- widgets and data

\* The location select box's options (src/app.py:215-221).
LocationOptions ==
  << <<"a","j","m","e","r"," ","r","o","a","d">>,
     <<"b","a","p","u"," ","n","a","g","a","r">>,
     <<"b","r","a","h","m","p","u","r","i">>,
     <<"c","h","o","k","d","i"," ","g","a","n","g","a","p","o","l">>,
     <<"c","i","v","i","l"," ","l","i","n","e","s">>,
     <<"d","a","h","a","r"," ","k","a"," ","b","a","l","a","j","i">>,
     <<"g","a","n","d","h","i"," ","p","a","t","h"," ","w","e","s","t">>,
     <<"h","a","n","u","m","a","n"," ","n","a","g","a","r">>,
     <<"j","a","w","a","h","a","r"," ","n","a","g","a","r">>,
     <<"m","a","l","v","i","y","a"," ","n","a","g","a","r">>,
     <<"m","a","n","c","h","w","a">>,
     <<"m","a","n","i","y","a","w","a","s">>,
     <<"m","a","n","s","a","r","o","v","a","r"," ","e","x","t",".">>,
     <<"p","a","r","a","s","r","a","m","p","u","r","i">>,
     <<"r","a","j","a"," ","p","a","r","k">>,
     <<"s","h","y","a","m"," ","n","a","g","a","r">>,
     <<"s","i","r","s","i">>,
     <<"s","i","t","a"," ","v","i","h","a","r">>,
     <<"t","a","g","o","r","e"," ","n","a","g","a","r">>,
     <<"v","a","i","s","h","a","l","i"," ","n","a","g","a","r">> >>

\* The five locations of the popular-locations chart (src/app.py:371):
\* malviya nagar, vaishali nagar, civil lines, bapu nagar, mansarovar ext.
PopularLocations ==
  << LocationOptions[10], LocationOptions[20], LocationOptions[5],
     LocationOptions[2], LocationOptions[13] >>

\* number_input "Total Area": min 100, max 10000, default 1000 (src/app.py:209).
AreaChoices == {1000, 2500}
\* selectbox options [1, 2, 3, 4, 5] for bathrooms and bedrooms
\* (src/app.py:210-211): the two of them that are explored.
RoomChoices == {2, 3}

\* The widget values the users pick.  Serial executions are explored for
\* every location option and every area choice; interleaved ones for the
\* first NumLocations options, the default area and one room count.
Selectable(h) ==
  IF h = "serial" THEN {LocationOptions[i] : i \in 1..Len(LocationOptions)}
  ELSE {LocationOptions[i] : i \in 1..NumLocations}
AreasPicked(h) == IF h = "serial" THEN AreaChoices ELSE {1000}
RoomsPicked(h) == IF h = "serial" THEN RoomChoices ELSE {2}

\* The first 16 outputs (32-bit words, as <<high 16 bits, low 16 bits>>) of
\* MT19937 after init_genrand(seed), which is what np.random.seed(seed) runs
\* for an integer seed; one stream per seed a select-box option sums to.
MT19937(seed) ==
  CASE
     seed = 554 ->
       << <<28672,19903>>, <<55108,26375>>, <<45238,23972>>, <<54461,35818>>, <<3350,18435>>, <<49203,46017>>, <<29893,14576>>, <<12680,53472>>, <<41212,56004>>, <<14774,16055>>, <<17201,39447>>, <<44515,20585>>, <<6616,47737>>, <<22657,53478>>, <<53019,16939>>, <<62512,33342>> >>
  [] seed = 735 ->
       << <<44418,46740>>, <<50332,29360>>, <<64995,18649>>, <<64792,53972>>, <<46438,55237>>, <<55631,17783>>, <<32176,1997>>, <<44242,60847>>, <<40685,25257>>, <<54730,29654>>, <<65018,43689>>, <<26922,3451>>, <<29667,35410>>, <<57304,5207>>, <<44721,50574>>, <<46944,5870>> >>
  [] seed = 876 ->
       << <<47073,59682>>, <<11674,11613>>, <<8218,50469>>, <<20743,14809>>, <<18934,36587>>, <<39733,45609>>, <<28251,27280>>, <<53586,8513>>, <<12835,19236>>, <<9191,42797>>, <<41396,29844>>, <<9185,61318>>, <<46851,5930>>, <<52423,43932>>, <<60822,41379>>, <<57692,47082>> >>
  [] seed = 970 ->
       << <<53786,8995>>, <<33248,6943>>, <<8965,23363>>, <<21234,48575>>, <<56045,19800>>, <<33943,56367>>, <<61744,25117>>, <<51872,15881>>, <<3091,52148>>, <<56884,20556>>, <<15865,486>>, <<27688,49778>>, <<50684,44744>>, <<714,14078>>, <<56626,60389>>, <<31508,41780>> >>
  [] seed = 977 ->
       << <<3832,44671>>, <<1938,25277>>, <<25671,44009>>, <<35339,58354>>, <<4019,22640>>, <<53298,41485>>, <<31177,24872>>, <<25718,22878>>, <<26981,32520>>, <<58437,24673>>, <<12906,26373>>, <<4219,57375>>, <<24393,50697>>, <<46352,17193>>, <<1181,42533>>, <<53322,13668>> >>
  [] seed = 981 ->
       << <<34982,37498>>, <<24631,19387>>, <<27010,28074>>, <<44581,10417>>, <<57850,61190>>, <<41808,14674>>, <<10535,33414>>, <<43831,11043>>, <<18860,35126>>, <<4522,45819>>, <<57038,61362>>, <<6623,4357>>, <<60792,60804>>, <<7973,54518>>, <<1561,59692>>, <<46702,6891>> >>
  [] seed = 1003 ->
       << <<39177,52509>>, <<318,44381>>, <<28569,23365>>, <<45823,39568>>, <<1105,38796>>, <<16482,37970>>, <<39104,33362>>, <<64978,44860>>, <<58653,18684>>, <<21849,59313>>, <<35037,23090>>, <<1854,929>>, <<390,18787>>, <<22414,13785>>, <<59125,15467>>, <<44114,30243>> >>
  [] seed = 1099 ->
       << <<30598,28172>>, <<52056,4315>>, <<35889,14069>>, <<11728,29029>>, <<25419,684>>, <<29542,41179>>, <<20657,28008>>, <<34961,30644>>, <<63391,2159>>, <<7441,59362>>, <<58258,33039>>, <<59231,56622>>, <<60574,30704>>, <<32843,9261>>, <<13450,19236>>, <<20285,20306>> >>
  [] seed = 1106 ->
       << <<32007,36157>>, <<47107,59126>>, <<36396,27671>>, <<60835,17176>>, <<60187,5154>>, <<23980,43683>>, <<55661,52424>>, <<63769,25016>>, <<52304,33749>>, <<55374,26115>>, <<25379,131>>, <<17092,25687>>, <<36694,18693>>, <<39363,20952>>, <<11909,41783>>, <<50497,43301>> >>
  [] seed = 1195 ->
       << <<50638,13906>>, <<60746,45081>>, <<4446,7583>>, <<21802,55581>>, <<21530,46976>>, <<8849,44012>>, <<35908,9499>>, <<12161,44299>>, <<44710,53205>>, <<21,11316>>, <<40253,51404>>, <<47785,4892>>, <<42382,29403>>, <<30572,44426>>, <<17060,41329>>, <<22310,65161>> >>
  [] seed = 1287 ->
       << <<14601,18715>>, <<53558,19562>>, <<23596,56558>>, <<17515,2993>>, <<55509,6624>>, <<7351,7863>>, <<2177,54807>>, <<1497,53850>>, <<27854,48993>>, <<25597,20482>>, <<53191,37099>>, <<20463,63870>>, <<43286,27014>>, <<41041,635>>, <<60129,15290>>, <<15593,45954>> >>
  [] seed = 1297 ->
       << <<351,59114>>, <<36166,4327>>, <<24654,13791>>, <<59321,41407>>, <<14335,10751>>, <<8715,49574>>, <<8275,30578>>, <<36686,49839>>, <<12169,21425>>, <<37016,39073>>, <<57862,52265>>, <<65530,26338>>, <<44569,25520>>, <<50486,47656>>, <<31362,26884>>, <<34624,63256>> >>
  [] seed = 1303 ->
       << <<61231,53549>>, <<2724,54770>>, <<16613,28331>>, <<41917,56244>>, <<13913,18099>>, <<16316,2838>>, <<56218,6436>>, <<26864,5404>>, <<37706,51806>>, <<45736,33561>>, <<18751,10625>>, <<27227,6111>>, <<55142,64130>>, <<16908,56043>>, <<52340,64983>>, <<1391,3442>> >>
  [] seed = 1308 ->
       << <<11890,47909>>, <<10932,46676>>, <<52187,37211>>, <<1163,25654>>, <<4158,17091>>, <<10337,64034>>, <<5846,41635>>, <<17491,35704>>, <<60659,59012>>, <<9185,47724>>, <<32617,28908>>, <<59576,4058>>, <<38935,61455>>, <<8219,36713>>, <<41703,26416>>, <<45941,38110>> >>
  [] seed = 1391 ->
       << <<29035,65049>>, <<8815,38894>>, <<5694,2487>>, <<40869,49270>>, <<51564,37955>>, <<19850,55444>>, <<54025,40744>>, <<868,64167>>, <<2774,10586>>, <<60900,13937>>, <<59878,40341>>, <<56377,12616>>, <<44722,19320>>, <<6206,35290>>, <<61285,60734>>, <<4940,33786>> >>
  [] seed = 1402 ->
       << <<25976,47161>>, <<16664,52783>>, <<41533,41911>>, <<52123,32777>>, <<11353,50362>>, <<37081,28938>>, <<35449,64701>>, <<16596,43818>>, <<53193,16596>>, <<55913,2270>>, <<37570,45577>>, <<18261,25734>>, <<44561,18673>>, <<38167,51129>>, <<8349,62587>>, <<33707,3545>> >>
  [] seed = 1497 ->
       << <<36384,57400>>, <<18957,31200>>, <<29167,4765>>, <<46105,31199>>, <<30768,25390>>, <<54411,3215>>, <<51215,39640>>, <<18463,47444>>, <<27892,24316>>, <<16624,38918>>, <<46662,22158>>, <<57510,5954>>, <<14562,59459>>, <<767,38247>>, <<34274,9786>>, <<36216,16840>> >>
  [] seed = 1499 ->
       << <<52574,15057>>, <<43282,8860>>, <<26045,41189>>, <<62498,28760>>, <<52573,6017>>, <<7912,17920>>, <<57116,59385>>, <<40021,27933>>, <<41490,3496>>, <<34829,7406>>, <<14715,25928>>, <<35997,963>>, <<42215,2567>>, <<24664,21017>>, <<8780,30210>>, <<31266,43006>> >>
  [] seed = 1563 ->
       << <<35459,9074>>, <<17953,47881>>, <<1614,62363>>, <<55053,7622>>, <<52477,60291>>, <<37953,21610>>, <<38435,12487>>, <<41534,41014>>, <<50176,4132>>, <<20182,55283>>, <<20258,59827>>, <<14445,15749>>, <<15011,48674>>, <<23704,8113>>, <<49403,37609>>, <<5255,24868>> >>

\* ------------------------------------------------- artifacts and loading

Str_area == <<"a","r","e","a">>
Str_bath == <<"b","a","t","h">>
Str_bhk  == <<"b","h","k">>

RECURSIVE Reverse(_)
Reverse(s) == IF s = <<>> THEN <<>> ELSE Reverse(Tail(s)) \o <<Head(s)>>

\* A columns.json written from the same vocabulary as the select box.
SchemaFull == <<Str_area, Str_bath, Str_bhk>> \o LocationOptions
\* A columns.json from a training run whose vocabulary lacks two of the
\* select-box options (ajmer road, mansarovar ext.), in another order.
SchemaPartial ==
  <<Str_area, Str_bath, Str_bhk>>
    \o SelectSeq(Reverse(LocationOptions),
                 LAMBDA l : l \notin {LocationOptions[1], LocationOptions[13]})
\* The schema of the end-to-end example: two locations after the three slots.
SchemaSmall == <<Str_area, Str_bath, Str_bhk, LocationOptions[2], LocationOptions[1]>>

\* model: "ok", "stale" (a pickle trained on one column fewer than
\* columns.json lists), "missing" or "corrupt"; columns: "ok", "missing" or
\* "no_data_columns".
Artifacts(m, c, cols) == [model |-> m, columns |-> c, data_columns |-> cols]

\* What the two files under Model/ can be when a script execution reads them.
Disks ==
  { Artifacts("ok", "ok", SchemaFull),
    Artifacts("ok", "ok", SchemaPartial),
    Artifacts("ok", "ok", SchemaSmall),
    Artifacts("stale", "ok", SchemaSmall),
    Artifacts("missing", "ok", SchemaFull),
    Artifacts("corrupt", "ok", SchemaFull),
    Artifacts("ok", "missing", <<>>),
    Artifacts("ok", "no_data_columns", <<>>) }

\* load_model: open and unpickle the model, then open columns.json and take
\* its data_columns; the first failing step raises.
load_model(d) ==
  IF d.model = "missing" THEN [raised |-> "FileNotFoundError", model |-> None, columns |-> None]
  ELSE IF d.model = "corrupt" THEN [raised |-> "UnpicklingError", model |-> None, columns |-> None]
  ELSE IF d.columns = "missing" THEN [raised |-> "FileNotFoundError", model |-> None, columns |-> None]
  ELSE IF d.columns = "no_data_columns" THEN [raised |-> "KeyError", model |-> None, columns |-> None]
  ELSE [raised |-> "",
        model |-> Some([n_features |-> Len(d.data_columns) - (IF d.model = "stale" THEN 1 ELSE 0)]),
        columns |-> Some(d.data_columns)]

\* The regression's coefficient for column i.
Coef(i) == IF i = 1 THEN 5 ELSE IF i = 2 THEN 300 ELSE IF i = 3 THEN 700 ELSE 100 * i

RECURSIVE Dot(_, _)
Dot(x, i) == IF i > Len(x) THEN 0 ELSE Coef(i) * x[i] + Dot(x, i + 1)

\* model.predict([x])[0] of the unpickled regression: a linear model over the
\* columns it was trained on (hundredths), refusing a vector of another length.
ModelPredict(model, x) ==
  IF Len(x) # model.n_features THEN [raised |-> "ValueError", value |-> 0]
  ELSE [raised |-> "", value |-> 1000 + Dot(x, 1)]

\* ------------------------------------------------------- feature vector

RECURSIVE IndexFrom(_, _, _)
IndexFrom(columns, v, i) ==
  IF i > Len(columns) THEN 0
  ELSE IF columns[i] = v THEN i
  ELSE IndexFrom(columns, v, i + 1)

\* columns.index(location): the first position holding it, 0 when list.index
\* raises ValueError.
ColumnsIndex(columns, location) == IndexFrom(columns, location, 1)

\* Mutation: the bathroom and bedroom slots exchanged.
SlotsVectorSwapped(columns, area, bath, bhk) ==
  [i \in 1..Len(columns) |->
     IF i = 1 THEN area ELSE IF i = 2 THEN bhk ELSE IF i = 3 THEN bath ELSE 0]

\* np.zeros(len(columns)) followed by the three slot assignments.
SlotsVector(columns, area, bath, bhk) ==
  [i \in 1..Len(columns) |->
     IF i = 1 THEN area ELSE IF i = 2 THEN bath ELSE IF i = 3 THEN bhk ELSE 0]

\* The vector both call sites build: slots, then x[loc_index] = 1.
\* raised = "ValueError" when the location is not a column; nothing is returned then.
BuildFeatureVector(columns, area, bath, bhk, location) ==
  LET x0  == SlotsVector(columns, area, bath, bhk)
      idx == ColumnsIndex(columns, location)
  IN IF idx = 0 THEN [raised |-> "ValueError", x |-> None]
     ELSE [raised |-> "", x |-> Some([x0 EXCEPT ![idx] = 1])]

\* One model.predict([x]) call, as logged per script execution: the call
\* site, the location the vector was built for, and the vector.
PredictCall(site, location, x) == [site |-> site, location |-> location, x |-> x]

\* A price divided by an area: the quotient as the pair it is made of.
Ratio(n, d) == [num |-> n, den |-> d]

\* get_price_per_sqft(model, columns, location, area, bhk, bath): the vector,
\* the prediction and the quotient inside one try; any exception is reported
\* with st.error and 0 is returned.
get_price_per_sqft(model, columns, location, area, bhk, bath) ==
  LET v == BuildFeatureVector(columns, area, bath, bhk, location)
      p == ModelPredict(model, Val(v.x))
      call == {PredictCall("get_price_per_sqft", location, Val(v.x))}
  IN IF v.raised # "" THEN [value |-> Ratio(0, 1), error |-> TRUE, predicted |-> {}]
     ELSE IF p.raised # "" THEN [value |-> Ratio(0, 1), error |-> TRUE, predicted |-> call]
     ELSE [value |-> Ratio(p.value, area), error |-> FALSE, predicted |-> call]

\* --------------------------------------------------- numpy's generator

\* The generator before any seed call: seeded by numpy from OS entropy.
Unseeded == [seed |-> -1, pos |-> 0]

\* Mutation: a generator that is already seeded keeps its stream.
np_random_seed_once(st, seed) == IF st.seed = -1 THEN [seed |-> seed, pos |-> 0] ELSE st

\* np.random.seed(seed): re-initialises the global generator.
np_random_seed(st, seed) == [seed |-> seed, pos |-> 0]

\* The next 32-bit word of the stream and the advanced state.
NextWord(st) == MT19937(st.seed)[st.pos + 1]
Advance(st) == [st EXCEPT !.pos = @ + 1]

RECURSIVE GenMask(_, _)
\* The smallest 2^k - 1 that is >= rng.
GenMask(m, rng) == IF m >= rng THEN m ELSE GenMask(2 * m + 1, rng)

RECURSIVE BoundedMasked(_, _, _)
\* Rejection sampling: draw words until (word & mask) <= rng.
BoundedMasked(st, rng, mask) ==
  LET v == NextWord(st)[2] % (mask + 1)
  IN IF v <= rng THEN [value |-> v, st |-> Advance(st)]
     ELSE BoundedMasked(Advance(st), rng, mask)

\* np.random.randint(low, high): an integer in [low, high).
np_random_randint(st, low, high) ==
  LET d == BoundedMasked(st, high - 1 - low, GenMask(0, high - 1 - low))
  IN [value |-> low + d.value, st |-> d.st]

\* np.random.uniform(low, high): low + (high - low) * u, u built from two
\* words (a = w1 >> 5, b = w2 >> 6, u = (a * 2^26 + b) / 2^53).  Kept as a
\* fixed-point number with 24 fractional bits: u's leading 24 bits are w1 >> 8.
np_random_uniform(st, low, high) ==
  LET w1 == NextWord(st)
      u24 == w1[1] * 256 + (w1[2] \div 256)
  IN [value |-> low * 2^24 + (high - low) * u24, st |-> Advance(Advance(st))]

\* Mutation: truncation to hundredths instead of rounding.
Round2Truncated(v24) == 100 * (v24 \div 2^24) + ((100 * (v24 % 2^24)) \div 2^24)

\* round(v, 2) of a 24-bit fixed-point value, in hundredths (ties to even).
Round2(v24) ==
  LET whole == v24 \div 2^24
      h     == 100 * (v24 % 2^24)
      q     == h \div 2^24
      r     == h % 2^24
      up    == 2 * r > 2^24 \/ (2 * r = 2^24 /\ q % 2 = 1)
  IN 100 * whole + q + (IF up THEN 1 ELSE 0)

\* The three draws of the environmental profile in source order, as one
\* computation on a generator nobody else touches.
EnvironmentalProfile(location) ==
  LET s0 == np_random_seed(Unseeded, SumOrd(location))
      a  == np_random_randint(s0, 50, 200)
      n  == np_random_randint(a.st, 30, 90)
      g  == np_random_uniform(n.st, 5, 30)
  IN [aqi |-> a.value, noise |-> n.value, green |-> Round2(g.value)]

\* -------------------------------------------------------- ROI projection

\* annual_growth_rate = 0.07, as a percentage.
AnnualGrowthPercent == 7
\* The three horizons of the ROI cards.
Horizons == <<5, 10, 15>>

\* Exact decimal arithmetic on naturals held as little-endian digit sequences.
RECURSIVE Digits(_)
Digits(n) == IF n = 0 THEN <<>> ELSE <<n % 10>> \o Digits(n \div 10)

RECURSIVE FromDigits(_)
FromDigits(d) == IF d = <<>> THEN 0 ELSE Head(d) + 10 * FromDigits(Tail(d))

RECURSIVE MulDigits(_, _, _)
\* d * k + carry
MulDigits(d, k, carry) ==
  IF d = <<>> THEN Digits(carry)
  ELSE LET t == Head(d) * k + carry
       IN <<t % 10>> \o MulDigits(Tail(d), k, t \div 10)

DigitAt(d, i) == IF i >= 1 /\ i <= Len(d) THEN d[i] ELSE 0

RECURSIVE GrowthDigits(_)
\* (1 + annual_growth_rate) ** h, times 100^h
GrowthDigits(h) ==
  IF h = 0 THEN <<1>> ELSE MulDigits(GrowthDigits(h - 1), 100 + AnnualGrowthPercent, 0)

\* round(v, 2) where v = d / 100^h hundredths: the low 2h digits are dropped,
\* to the nearest hundredth, ties to even.
RoundDrop(d, k) ==
  LET kept == FromDigits(SubSeq(d, k + 1, Len(d)))
      top  == DigitAt(d, k)
      tail == \E i \in 1..(k - 1) : DigitAt(d, i) # 0
      up   == top > 5 \/ (top = 5 /\ (tail \/ kept % 2 = 1))
  IN IF k = 0 THEN FromDigits(d) ELSE kept + (IF up THEN 1 ELSE 0)

\* The powers the ROI block uses, computed once.
GrowthTable == [i \in 1..Len(Horizons) |-> GrowthDigits(Horizons[i])]
GrowthOf(h) == GrowthTable[CHOOSE i \in 1..Len(Horizons) : Horizons[i] = h]

\* Mutation: the projection cut to hundredths instead of rounded.
ProjectedPriceTruncated(price, h) ==
  FromDigits(SubSeq(MulDigits(GrowthOf(h), price, 0), 2 * h + 1,
                    Len(MulDigits(GrowthOf(h), price, 0))))

\* round(predicted_price * ((1 + annual_growth_rate) ** h), 2), in hundredths.
ProjectedPrice(price, h) == RoundDrop(MulDigits(GrowthOf(h), price, 0), 2 * h)

\* f"{((roi / predicted_price - 1) * 100):.1f}": the percentage shown on the
\* card, in tenths of a percent, by long division of (roi - price) by price.
PercentGain(roi, price) ==
  LET num == roi - price
      q0 == num \div price
      r0 == num % price
      d1 == (10 * r0) \div price
      r1 == (10 * r0) % price
      d2 == (10 * r1) \div price
      r2 == (10 * r1) % price
      d3 == (10 * r2) \div price
      r3 == (10 * r2) % price
      t  == ((q0 * 10 + d1) * 10 + d2) * 10 + d3
      up == 2 * r3 > price \/ (2 * r3 = price /\ t % 2 = 1)
  IN t + (IF up THEN 1 ELSE 0)

\* The ROI block: one projected price and one shown percentage per horizon.
ProjectValue(price) ==
  [i \in 1..Len(Horizons) |->
     LET roi == ProjectedPrice(price, Horizons[i])
     IN [years |-> Horizons[i], roi |-> roi, pct |-> PercentGain(roi, price)]]

\* ----------------------------------------------------------- format_price

\* Python values handed to format_price: value = num * 10^exp10 / den for a
\* number; den = 0 marks a float nan (num = 0) or infinity (num = +-1).
PyFloat(n, d) == [t |-> "float", num |-> n, den |-> d, exp10 |-> 0, s |-> <<>>]
PyInt(n, e)   == [t |-> "int", num |-> n, den |-> 1, exp10 |-> e, s |-> <<>>]
PyStr(s)      == [t |-> "str", num |-> 0, den |-> 1, exp10 |-> 0, s |-> s]
PyNone        == [t |-> "NoneType", num |-> 0, den |-> 1, exp10 |-> 0, s |-> <<>>]
PyList        == [t |-> "list", num |-> 0, den |-> 1, exp10 |-> 0, s |-> <<>>]

DigitChars == <<"0","1","2","3","4","5","6","7","8","9">>
IsDigit(c) == \E i \in 1..10 : DigitChars[i] = c
DigitVal(c) == (CHOOSE i \in 1..10 : DigitChars[i] = c) - 1

RECURSIVE ParseNat(_, _)
ParseNat(s, acc) == IF s = <<>> THEN acc ELSE ParseNat(Tail(s), 10 * acc + DigitVal(Head(s)))

Abs(n) == IF n < 0 THEN -n ELSE n

\* float(str) for the forms exercised here: nan, inf, and an optionally
\* signed decimal with at most one point and at least one digit; anything
\* else among the probes is text float() rejects.
ParseFloat(s) ==
  LET signed == s # <<>> /\ Head(s) \in {"-", "+"}
      neg    == s # <<>> /\ Head(s) = "-"
      body   == IF signed THEN Tail(s) ELSE s
      dots   == {i \in 1..Len(body) : body[i] = "."}
      point  == IF dots = {} THEN Len(body) + 1 ELSE CHOOSE i \in dots : TRUE
      ip     == SubSeq(body, 1, point - 1)
      fp     == SubSeq(body, point + 1, Len(body))
      wellformed == /\ Cardinality(dots) <= 1
                    /\ Len(ip) + Len(fp) >= 1
                    /\ \A i \in 1..Len(ip) : IsDigit(ip[i])
                    /\ \A i \in 1..Len(fp) : IsDigit(fp[i])
      mag    == ParseNat(ip \o fp, 0)
  IN IF body = <<"n","a","n">> THEN [raised |-> "", value |-> PyFloat(0, 0)]
     ELSE IF body = <<"i","n","f">> THEN [raised |-> "", value |-> PyFloat(IF neg THEN -1 ELSE 1, 0)]
     ELSE IF wellformed
          THEN [raised |-> "", value |-> PyFloat(IF neg THEN -mag ELSE mag, 10 ^ Len(fp))]
          ELSE [raised |-> "ValueError", value |-> PyNone]

\* float(price): a float is itself, an int converts unless it is beyond the
\* double range (more than 309 decimal digits here), a string is parsed, and
\* any other type raises TypeError.
PyFloatOf(v) ==
  CASE v.t = "float" -> [raised |-> "", value |-> v]
    [] v.t = "int" ->
         IF Len(Digits(Abs(v.num))) + v.exp10 > 309
         THEN [raised |-> "OverflowError", value |-> PyNone]
         ELSE [raised |-> "", value |-> PyFloat(v.num * 10 ^ v.exp10, 1)]
    [] v.t = "str" -> ParseFloat(v.s)
    [] OTHER -> [raised |-> "TypeError", value |-> PyNone]

RECURSIVE DecStr(_)
DecStr(n) == IF n < 10 THEN <<DigitChars[n + 1]>> ELSE DecStr(n \div 10) \o <<DigitChars[(n % 10) + 1]>>

Pad3(n) == <<DigitChars[(n \div 100) + 1], DigitChars[((n \div 10) % 10) + 1], DigitChars[(n % 10) + 1]>>

RECURSIVE Grouped(_)
\* The "," option: the integer part in groups of three.
Grouped(n) == IF n < 1000 THEN DecStr(n) ELSE Grouped(n \div 1000) \o <<",">> \o Pad3(n % 1000)

\* f"{price:,.2f}" of a float: nan and inf by name, a finite value rounded to
\* hundredths (ties to even), sign kept even when the result is zero.
FormatFixed2(f) ==
  IF f.den = 0
  THEN (IF f.num < 0 THEN <<"-">> ELSE <<>>)
         \o (IF f.num = 0 THEN <<"n","a","n">> ELSE <<"i","n","f">>)
  ELSE LET a  == Abs(f.num)
           q  == a \div f.den
           r  == a % f.den
           h  == (100 * r) \div f.den
           rr == (100 * r) % f.den
           c0 == 100 * q + h
           up == 2 * rr > f.den \/ (2 * rr = f.den /\ c0 % 2 = 1)
           c  == c0 + (IF up THEN 1 ELSE 0)
       IN (IF f.num < 0 THEN <<"-">> ELSE <<>>)
            \o Grouped(c \div 100) \o <<".">>
            \o <<DigitChars[((c % 100) \div 10) + 1], DigitChars[(c % 10) + 1]>>

Rupee == "₹"
ZeroPrice == <<Rupee, "0", ".", "0", "0">>

\* Mutation: a negative amount is replaced by the zero-valued string.
format_price_clamped(price) ==
  LET f == PyFloatOf(price)
  IN IF f.raised \in {"ValueError", "TypeError"} THEN [raised |-> "", text |-> ZeroPrice]
     ELSE IF f.raised # "" THEN [raised |-> f.raised, text |-> <<>>]
     ELSE IF f.value.num < 0 THEN [raised |-> "", text |-> ZeroPrice]
     ELSE [raised |-> "", text |-> <<Rupee>> \o FormatFixed2(f.value)]

\* format_price(price): float(price) and the f-string inside a try that
\* catches ValueError and TypeError only; any other exception propagates.
format_price(price) ==
  LET f == PyFloatOf(price)
  IN IF f.raised \in {"ValueError", "TypeError"} THEN [raised |-> "", text |-> ZeroPrice]
     ELSE IF f.raised # "" THEN [raised |-> f.raised, text |-> <<>>]
     ELSE [raised |-> "", text |-> <<Rupee>> \o FormatFixed2(f.value)]

\* ------------------------------------------------- one script execution

\* A session with no script execution in progress: every local discarded.
IdleRun ==
  [ pc |-> "idle",
    area |-> 0, bathrooms |-> 0, bedrooms |-> 0, location |-> <<>>,
    predict_button |-> FALSE,
    model |-> None, columns |-> None,
    x |-> None, predicted_price |-> None, price_per_sqft |-> None,
    price_text |-> None, roi |-> None,
    aqi |-> None, noise |-> None, green |-> None,
    avg_price_sqft |-> None, locations_data |-> None,
    errors |-> <<>>,      \* the st.error messages rendered, in order
    predicted |-> {},     \* the model.predict calls made
    seeded_over |-> "" ]  \* what the generator held when this execution seeded it

NoProbe == [fn |-> "none", arg |-> PyNone, out |-> None]

Active(s) == run[s].pc # "idle"

\* A user interaction: the widgets take their values and the host starts a
\* script execution for the session, from the first line.
Rerun(s) ==
  /\ run[s].pc = "idle"
  /\ loads < MaxRuns
  /\ host = "serial" => \A t \in Sessions \ {s} : ~Active(t)
  /\ \E a \in AreasPicked(host), b \in RoomsPicked(host), k \in RoomsPicked(host),
        l \in Selectable(host), clicked \in BOOLEAN :
       run' = [run EXCEPT ![s] =
                 [IdleRun EXCEPT !.pc = "load", !.area = a, !.bathrooms = b,
                                 !.bedrooms = k, !.location = l,
                                 !.predict_button = clicked]]
  /\ UNCHANGED <<host, disk, loads, npState, probe>>

\* Mutation: the failure is reported but st.stop() is not called.
LoadModelWithoutStop(s) ==
  /\ run[s].pc = "load"
  /\ loads' = loads + 1
  /\ LET r == load_model(disk)
     IN \/ /\ r.raised # ""
           /\ run' = [run EXCEPT ![s].errors = Append(@, "Error loading model"),
                                 ![s].pc = "stats"]
        \/ /\ r.raised = ""
           /\ run' = [run EXCEPT ![s].model = r.model, ![s].columns = r.columns,
                                 ![s].pc = "loaded"]
  /\ UNCHANGED <<host, disk, npState, probe>>

\* try: model, columns = load_model()
\* except Exception: st.error(...); st.stop()
LoadModel(s) ==
  /\ run[s].pc = "load"
  /\ loads' = loads + 1
  /\ LET r == load_model(disk)
     IN \/ /\ r.raised # ""
           /\ run' = [run EXCEPT ![s].errors = Append(@, "Error loading model"),
                                 ![s].pc = "halted"]
        \/ /\ r.raised = ""
           /\ run' = [run EXCEPT ![s].model = r.model, ![s].columns = r.columns,
                                 ![s].pc = "loaded"]
  /\ UNCHANGED <<host, disk, npState, probe>>

PredictionFailed(r, partial) ==
  [r EXCEPT !.x = partial,
            !.errors = @ \o <<"Error making prediction",
                              "Please check your input values and try again.">>,
            !.pc = "stats"]

\* Bookkeeping for the profile's history: the generator this execution
\* re-seeds was fresh, held the stream of the same seed, or of another one.
SeededOver(st, location) ==
  IF st.seed = -1 THEN "fresh"
  ELSE IF st.seed = SumOrd(location) THEN "same" ELSE "other"

\* if predict_button: the try block up to and including np.random.seed(seed).
PredictButton(s) ==
  /\ run[s].pc = "loaded"
  /\ \E r \in {run[s]} :
       \/ /\ ~r.predict_button
          /\ run' = [run EXCEPT ![s].pc = "stats"]
          /\ UNCHANGED npState
       \/ /\ r.predict_button
          /\ \E v \in {BuildFeatureVector(Val(r.columns), r.area, r.bathrooms,
                                            r.bedrooms, r.location)} :
               \/ /\ v.raised # ""
                  /\ run' = [run EXCEPT ![s] =
                               PredictionFailed(r, Some(SlotsVector(Val(r.columns), r.area,
                                                                    r.bathrooms, r.bedrooms)))]
                  /\ UNCHANGED npState
               \/ /\ v.raised = ""
                  /\ \E p \in {ModelPredict(Val(r.model), Val(v.x))} :
                       \/ /\ p.raised # ""
                          /\ run' = [run EXCEPT ![s] =
                                       [PredictionFailed(r, v.x) EXCEPT
                                          !.predicted = {PredictCall("predict_button", r.location, Val(v.x))}]]
                          /\ UNCHANGED npState
                       \/ /\ p.raised = ""
                          /\ run' = [run EXCEPT ![s] =
                                [r EXCEPT !.x = v.x,
                                          !.predicted =
                                             {PredictCall("predict_button", r.location, Val(v.x))},
                                          !.seeded_over = SeededOver(npState, r.location),
                                          !.predicted_price = Some(p.value),
                                          !.price_per_sqft = Some(Ratio(p.value, r.area)),
                                          !.price_text =
                                             Some(format_price(PyFloat(p.value, 100)).text),
                                          !.roi = Some(ProjectValue(p.value)),
                                          !.pc = "env_aqi"]]
                          /\ npState' = np_random_seed(npState, SumOrd(r.location))
  /\ UNCHANGED <<host, disk, loads, probe>>

\* aqi = np.random.randint(50, 200)
DrawAqi(s) ==
  /\ run[s].pc = "env_aqi"
  /\ LET d == np_random_randint(npState, 50, 200)
     IN /\ run' = [run EXCEPT ![s].aqi = Some(d.value), ![s].pc = "env_noise"]
        /\ npState' = d.st
  /\ UNCHANGED <<host, disk, loads, probe>>

\* noise = np.random.randint(30, 90)
DrawNoise(s) ==
  /\ run[s].pc = "env_noise"
  /\ LET d == np_random_randint(npState, 30, 90)
     IN /\ run' = [run EXCEPT ![s].noise = Some(d.value), ![s].pc = "env_green"]
        /\ npState' = d.st
  /\ UNCHANGED <<host, disk, loads, probe>>

\* green = round(np.random.uniform(5, 30), 2); the try block ends.
DrawGreen(s) ==
  /\ run[s].pc = "env_green"
  /\ LET d == np_random_uniform(npState, 5, 30)
     IN /\ run' = [run EXCEPT ![s].green = Some(Round2(d.value)), ![s].pc = "stats"]
        /\ npState' = d.st
  /\ UNCHANGED <<host, disk, loads, probe>>

\* Market statistics (average price per sq ft of the selected location) and
\* the popular-locations chart: six calls of get_price_per_sqft.
MarketStatistics(s) ==
  /\ run[s].pc = "stats"
  /\ \E r \in {run[s]} :
       \E avg \in {get_price_per_sqft(Val(r.model), Val(r.columns), r.location, 1000, 2, 2)},
          bar \in {[i \in 1..Len(PopularLocations) |->
                     get_price_per_sqft(Val(r.model), Val(r.columns),
                                        PopularLocations[i], 1000, 2, 2)]} :
         LET failed == (IF avg.error THEN 1 ELSE 0)
                         + Cardinality({i \in 1..Len(PopularLocations) : bar[i].error})
         IN run' = [run EXCEPT ![s] =
                      [r EXCEPT !.avg_price_sqft = Some(avg.value),
                                !.locations_data =
                                   Some([i \in 1..Len(PopularLocations) |-> bar[i].value]),
                                !.errors = @ \o [i \in 1..failed |->
                                                   "Error calculating price per sq ft"],
                                !.predicted = @ \cup avg.predicted
                                   \cup UNION {bar[i].predicted : i \in 1..Len(PopularLocations)},
                                !.pc = "rendered"]]
  /\ UNCHANGED <<host, disk, loads, npState, probe>>

\* The script execution is over (rendered, or stopped by st.stop()): its
\* locals are discarded; the page stays in the browser.
EndRun(s) ==
  /\ run[s].pc \in {"rendered", "halted"}
  /\ run' = [run EXCEPT ![s] = IdleRun]
  /\ UNCHANGED <<host, disk, loads, npState, probe>>

Next ==
  \E s \in Sessions :
    \/ Rerun(s)
    \/ LoadModel(s)
    \/ PredictButton(s)
    \/ DrawAqi(s)
    \/ DrawNoise(s)
    \/ DrawGreen(s)
    \/ MarketStatistics(s)
    \/ EndRun(s)

InitHost(h) ==
  /\ host = h
  /\ disk \in Disks
  /\ loads = 0
  /\ npState = Unseeded
  /\ run = [s \in Sessions |-> IdleRun]
  /\ probe = NoProbe

\* The documented deployment: one script execution at a time.
Init == InitHost("serial")
Spec == Init /\ [][Next]_vars

\* Streamlit's host: one script thread per session, interleaved.
InitThreaded == InitHost("threaded")
SpecThreaded == InitThreaded /\ [][Next]_vars

\* ------------------------------------------------- pure-function probes

FloatProbes == {PyFloat(k, 8) : k \in (-MaxEighths)..MaxEighths}
                 \cup {PyFloat(k, 8) : k \in {7999, 8000, 9876543, 80000001}}
                 \cup {PyFloat(0, 0), PyFloat(1, 0), PyFloat(-1, 0)}
IntProbes == {PyInt(n, 0) : n \in {-1000000, -1, 0, 1, 999, 1000, 1234567}}
               \cup {PyInt(1, 400), PyInt(-1, 400)}
StrProbes == { PyStr(<<"a","b","c">>), PyStr(<<>>), PyStr(<<"1","2",".","5">>),
               PyStr(<<"-","1">>), PyStr(<<"1",".","2",".","3">>), PyStr(<<"1","2","5","0">>),
               PyStr(<<"n","a","n">>), PyStr(<<"-","i","n","f">>), PyStr(<<".">>) }
FormatProbes == FloatProbes \cup IntProbes \cup StrProbes \cup {PyNone, PyList}

InitFormatPrice ==
  /\ host = "serial" /\ disk \in {Artifacts("ok", "ok", SchemaSmall)}
  /\ loads = 0 /\ npState = Unseeded /\ run = [s \in Sessions |-> IdleRun]
  /\ probe \in {[fn |-> "format_price", arg |-> a, out |-> None] : a \in FormatProbes}

\* One call of format_price(arg).
FormatPriceCall ==
  /\ probe.fn = "format_price"
  /\ probe.out = None
  /\ probe' = [probe EXCEPT !.out = Some(format_price(probe.arg))]
  /\ UNCHANGED <<host, disk, loads, npState, run>>

SpecFormatPrice == InitFormatPrice /\ [][FormatPriceCall]_vars

\* Predicted prices, in hundredths: 1,000,000.00 and a range of small ones.
PriceProbes == {100000000} \cup {137 * k + 21 : k \in 1..MaxProbePrice}

InitProjectValue ==
  /\ host = "serial" /\ disk \in {Artifacts("ok", "ok", SchemaSmall)}
  /\ loads = 0 /\ npState = Unseeded /\ run = [s \in Sessions |-> IdleRun]
  /\ probe \in {[fn |-> "project_value", arg |-> PyInt(p, 0), out |-> None] : p \in PriceProbes}

\* One evaluation of the ROI block for a predicted price.
ProjectValueCall ==
  /\ probe.fn = "project_value"
  /\ probe.out = None
  /\ probe' = [probe EXCEPT !.out = Some(ProjectValue(probe.arg.num))]
  /\ UNCHANGED <<host, disk, loads, npState, run>>

SpecProjectValue == InitProjectValue /\ [][ProjectValueCall]_vars

\* ======================================================================
\* Properties
\* ======================================================================

\* A vector is the feature vector of (area, bath, bhk, location) over the
\* columns: right length, the three slots, and among the location slots
\* (4..) a single 1, at a column named location.
IsFeatureVector(x, columns, area, bath, bhk, location) ==
  /\ Len(x) = Len(columns)
  /\ x[1] = area /\ x[2] = bath /\ x[3] = bhk
  /\ \E idx \in 4..Len(columns) :
       /\ columns[idx] = location
       /\ x[idx] = 1
       /\ \A i \in (4..Len(columns)) \ {idx} : x[i] = 0

\* C1: every vector handed to model.predict, by the Predict-button handler
\* (with the widgets' area, bathrooms, bedrooms) or by get_price_per_sqft
\* (with 1000, 2 baths, 2 bedrooms), has len(columns) slots, the three
\* leading slots equal to area, bathrooms, bedrooms, a 1 at the location's
\* column and 0 at every other location column.
C1_FeatureVectorIsOneHot ==
  \A s \in Sessions :
    \A c \in run[s].predicted :
      IF c.site = "predict_button"
      THEN /\ c.location = run[s].location
           /\ IsFeatureVector(c.x, Val(run[s].columns), run[s].area,
                              run[s].bathrooms, run[s].bedrooms, c.location)
      ELSE IsFeatureVector(c.x, Val(run[s].columns), 1000, 2, 2, c.location)

\* C1 witness: the end-to-end example, schema [area, bath, bhk, loc_a, loc_b]
\* and the query (1000, 2, 3, loc_b), reached [1000, 2, 3, 0, 1].
C1_Witness ==
  \E s \in Sessions :
    /\ run[s].columns = Some(SchemaSmall)
    /\ run[s].location = SchemaSmall[5]
    /\ PredictCall("predict_button", SchemaSmall[5], <<1000, 2, 3, 0, 1>>) \in run[s].predicted
    /\ run[s].pc = "rendered"
    /\ IsSet(run[s].predicted_price)

\* A script execution whose selected location is no column of the schema.
UnknownLocation(s) ==
  /\ IsSet(run[s].columns)
  /\ \A i \in 1..Len(Val(run[s].columns)) : Val(run[s].columns)[i] # run[s].location

\* C2 (as claimed): once a script execution for a location that is not in
\* the schema has rendered, an error was reported, no vector for that
\* location reached the model, and no price, price per area or other value
\* was derived for the location, at the Predict button and in
\* get_price_per_sqft alike.
C2_UnknownLocationRejected ==
  \A s \in Sessions :
    (run[s].pc = "rendered" /\ UnknownLocation(s)) =>
      /\ run[s].errors # <<>>
      /\ \A c \in run[s].predicted : c.location # run[s].location
      /\ run[s].predicted_price = None
      /\ run[s].price_per_sqft = None
      /\ run[s].roi = None
      /\ run[s].green = None
      /\ run[s].avg_price_sqft = None

\* The load of this disk fails: either file is missing, the pickle does not
\* deserialize, or the JSON has no data_columns.
LoadFails ==
  \/ disk.model \in {"missing", "corrupt"}
  \/ disk.columns \in {"missing", "no_data_columns"}

\* C3: in a script execution whose load fails the failure is reported once
\* and the execution stops there: past the load it is halted with that one
\* message, and nothing was predicted, built, projected, drawn or charted.
C3_LoadFailureHalts ==
  \A s \in Sessions :
    (LoadFails /\ run[s].pc \notin {"idle", "load"}) =>
      /\ run[s].pc = "halted"
      /\ run[s].errors = <<"Error loading model">>
      /\ run[s].predicted = {}
      /\ run[s].model = None /\ run[s].columns = None
      /\ run[s].x = None /\ run[s].predicted_price = None
      /\ run[s].price_per_sqft = None /\ run[s].roi = None
      /\ run[s].aqi = None /\ run[s].noise = None /\ run[s].green = None
      /\ run[s].avg_price_sqft = None /\ run[s].locations_data = None

\* C3 witness: an execution halted on a columns.json without data_columns.
C3_Witness ==
  \E s \in Sessions :
    /\ disk.columns = "no_data_columns"
    /\ run[s].pc = "halted"
    /\ Len(run[s].errors) = 1

\* C4 (as claimed): over any sequence of user interactions the process
\* executes load_model at most once.
C4_LoadedOnce == loads <= 1

Profile(s) == [aqi |-> Val(run[s].aqi), noise |-> Val(run[s].noise), green |-> Val(run[s].green)]

\* C5: with script executions served one at a time, the handler seeds the
\* generator with the sum of the location's code points, and the (aqi,
\* noise, green) it then draws is the triple that location gives on a
\* generator nobody has used, whatever earlier executions seeded and drew;
\* for "civil lines" that is (111, 84, 18.88).
C5_ProfileDependsOnLocationOnly ==
  \A s \in Sessions :
    /\ run[s].pc = "env_aqi" => npState = [seed |-> SumOrd(run[s].location), pos |-> 0]
    /\ IsSet(run[s].green) =>
         /\ Profile(s) = EnvironmentalProfile(run[s].location)
         /\ run[s].location = LocationOptions[5] =>
              Profile(s) = [aqi |-> 111, noise |-> 84, green |-> 1888]

\* C5 witness: a profile completed on a generator that an earlier execution
\* had seeded for another location and drawn from.
C5_Witness ==
  \E s \in Sessions :
    /\ run[s].seeded_over = "other"
    /\ run[s].location = LocationOptions[5]
    /\ IsSet(run[s].green)

\* C6 (as claimed): however the host interleaves two script executions,
\* each one's environmental profile and prediction are those it produces
\* when it runs alone.
C6_RequestsAreIsolated ==
  \A s \in Sessions :
    IsSet(run[s].green) =>
      /\ Profile(s) = EnvironmentalProfile(run[s].location)
      /\ LET v == BuildFeatureVector(Val(run[s].columns), run[s].area, run[s].bathrooms,
                                     run[s].bedrooms, run[s].location)
         IN run[s].predicted_price = Some(ModelPredict(Val(run[s].model), Val(v.x)).value)

\* What numpy returns for the twenty select-box options, in their order:
\* np.random.seed(sum of code points), then randint(50, 200), randint(30, 90)
\* and round(uniform(5, 30), 2), the last in hundredths.
NumpyProfiles ==
  << <<172, 89, 1530>>, <<177, 71, 1848>>, <<85, 61, 842>>, <<138, 31, 802>>,
     <<111, 84, 1888>>, <<75, 76, 717>>, <<164, 39, 562>>, <<164, 77, 964>>,
     <<77, 72, 1400>>, <<87, 50, 2491>>, <<198, 78, 2979>>, <<85, 61, 842>>,
     <<106, 62, 1613>>, <<95, 80, 1134>>, <<84, 59, 814>>, <<62, 57, 1869>>,
     <<57, 66, 2578>>, <<79, 59, 1590>>, <<132, 55, 670>>, <<107, 77, 2084>> >>

OptionIndex(location) == CHOOSE i \in 1..Len(LocationOptions) : LocationOptions[i] = location

\* C8: the profile is three draws in the order aqi, noise, green on the
\* freshly seeded generator, with nothing drawn in between (each draw starts
\* at the stream position the previous one left, the first at position 0),
\* and 50 <= aqi < 200, 30 <= noise < 90, 5 <= green < 30 with green rounded
\* to 2 decimals; the values are numpy's for the location.
C8_ThreeDrawsInOrderAndRange ==
  \A s \in Sessions :
    LET r  == run[s]
        s0 == [seed |-> SumOrd(r.location), pos |-> 0]
        a  == np_random_randint(s0, 50, 200)
        n  == np_random_randint(a.st, 30, 90)
        g  == np_random_uniform(n.st, 5, 30)
    IN /\ r.pc = "env_aqi" => (r.aqi = None /\ r.noise = None /\ r.green = None /\ npState = s0)
       /\ r.pc = "env_noise" => (IsSet(r.aqi) /\ r.noise = None /\ r.green = None /\ npState = a.st)
       /\ r.pc = "env_green" => (IsSet(r.aqi) /\ IsSet(r.noise) /\ r.green = None /\ npState = n.st)
       /\ IsSet(r.aqi) => (Val(r.aqi) >= 50 /\ Val(r.aqi) < 200)
       /\ IsSet(r.noise) => (Val(r.noise) >= 30 /\ Val(r.noise) < 90)
       /\ IsSet(r.green) =>
            /\ Val(r.green) >= 500 /\ Val(r.green) < 3000
            /\ <<Val(r.aqi), Val(r.noise), Val(r.green)>> = NumpyProfiles[OptionIndex(r.location)]
            /\ (r.pc = "stats" => npState = g.st)

\* C8 witness: a rendered profile near the top of two ranges ("manchwa":
\* aqi 198, green 29.79).
C8_Witness ==
  \E s \in Sessions :
    /\ run[s].pc = "rendered"
    /\ run[s].location = LocationOptions[11]
    /\ run[s].aqi = Some(198) /\ run[s].noise = Some(78) /\ run[s].green = Some(2979)

\* ---- comparisons on digit sequences, for the ROI property

RECURSIVE Strip(_)
Strip(d) == IF d # <<>> /\ d[Len(d)] = 0 THEN Strip(SubSeq(d, 1, Len(d) - 1)) ELSE d

RECURSIVE LeqFrom(_, _, _)
LeqFrom(a, b, i) ==
  IF i = 0 THEN TRUE
  ELSE IF a[i] # b[i] THEN a[i] < b[i]
  ELSE LeqFrom(a, b, i - 1)

BigLeq(a, b) ==
  LET x == Strip(a)
      y == Strip(b)
  IN IF Len(x) # Len(y) THEN Len(x) < Len(y) ELSE LeqFrom(x, y, Len(x))

RECURSIVE BigAdd(_, _, _)
BigAdd(a, b, carry) ==
  IF a = <<>> /\ b = <<>> THEN Digits(carry)
  ELSE LET t == DigitAt(a, 1) + DigitAt(b, 1) + carry
       IN <<t % 10>> \o BigAdd(IF a = <<>> THEN a ELSE Tail(a),
                               IF b = <<>> THEN b ELSE Tail(b), t \div 10)

Zeros(k) == [i \in 1..k |-> 0]

RECURSIVE Compound(_, _)
\* price * 107^h, one year at a time
Compound(d, h) == IF h = 0 THEN d ELSE Compound(MulDigits(d, 107, 0), h - 1)

\* |a - b| <= tol, on digit sequences
Within(a, b, tol) == BigLeq(a, BigAdd(b, tol, 0)) /\ BigLeq(b, BigAdd(a, tol, 0))

\* roi (hundredths) is price * 1.07^h rounded to 2 decimals:
\* |roi * 100^h - price * 107^h| <= 100^h / 2.
IsRoundedProjection(roi, price, h) ==
  Within(Zeros(2 * h) \o Digits(roi), Compound(Digits(price), h), Zeros(2 * h - 1) \o <<5>>)

\* pct (tenths of a percent) is (roi / price - 1) * 100 to one decimal:
\* 2 * |pct * price - 1000 * (roi - price)| <= price.
IsShownGain(pct, roi, price) ==
  Within(MulDigits(Digits(price), 2 * pct, 0),
         MulDigits(Digits(roi - price), 2000, 0), Digits(price))

\* C7: for each horizon h in {5, 10, 15} the projected price is
\* P * 1.07^h rounded to 2 decimals and the percentage shown is
\* (projected / P - 1) * 100 of that rounded price; for P = 1,000,000 the
\* projections are 1,402,551.73, 1,967,151.36 and 2,759,031.54.
C7_ProjectionIsCompoundGrowth ==
  (probe.fn = "project_value" /\ IsSet(probe.out)) =>
    LET P == probe.arg.num
        o == Val(probe.out)
    IN /\ Len(o) = 3
       /\ <<o[1].years, o[2].years, o[3].years>> = <<5, 10, 15>>
       /\ \A i \in 1..3 :
            /\ IsRoundedProjection(o[i].roi, P, o[i].years)
            /\ IsShownGain(o[i].pct, o[i].roi, P)
       /\ P = 100000000 =>
            /\ <<o[1].roi, o[2].roi, o[3].roi>> = <<140255173, 196715136, 275903154>>
            /\ <<o[1].pct, o[2].pct, o[3].pct>> = <<403, 967, 1759>>

\* C7 witness: the projection of P = 1,000,000 has been computed.
C7_Witness ==
  /\ probe.fn = "project_value"
  /\ probe.arg.num = 100000000
  /\ IsSet(probe.out)
  /\ Val(probe.out)[3].roi = 275903154

\* ---- the shape of a formatted amount

\* text is the rupee sign, an optional minus, digits in comma-separated
\* groups of three, a point and exactly two digits.
WellFormedAmount(text) ==
  /\ Len(text) >= 5
  /\ text[1] = Rupee
  /\ LET body == IF text[2] = "-" THEN SubSeq(text, 3, Len(text)) ELSE Tail(text)
         n    == Len(body)
     IN /\ n >= 4
        /\ body[n - 2] = "."
        /\ IsDigit(body[n - 1]) /\ IsDigit(body[n])
        /\ IsDigit(body[1])
        /\ \A j \in 1..(n - 3) :
             IF (n - 2 - j) % 4 = 0 THEN body[j] = "," ELSE IsDigit(body[j])

Numeric(a) == a.t \in {"int", "float"}
NonNumeric(a) == a.t \in {"NoneType", "list"} \/ (a.t = "str" /\ ParseFloat(a.s).raised # "")

\* C9 (as claimed): format_price returns for every input: a numeric input
\* gives the amount with thousands separators and exactly 2 decimals, and
\* every non-numeric input gives the zero-valued string.
C9_FormatPriceNeverRaises ==
  (probe.fn = "format_price" /\ IsSet(probe.out)) =>
    /\ Val(probe.out).raised = ""
    /\ Numeric(probe.arg) => WellFormedAmount(Val(probe.out).text)
    /\ NonNumeric(probe.arg) => Val(probe.out).text = ZeroPrice

Str_abc == <<"a","b","c">>

\* C10 (as claimed): format_price(-1) and format_price("abc") both return
\* the zero-valued string.
C10_MinusOneFormatsAsZero ==
  (probe.fn = "format_price" /\ IsSet(probe.out)
     /\ probe.arg \in {PyInt(-1, 0), PyStr(Str_abc)}) =>
    Val(probe.out) = [raised |-> "", text |-> ZeroPrice]

\* C10 (amended): neither call raises; format_price("abc") returns the
\* zero-valued string and format_price(-1) returns the amount -1.00.
C10_MinusOneFormatsAsAmount ==
  (probe.fn = "format_price" /\ IsSet(probe.out)) =>
    /\ probe.arg = PyStr(Str_abc) => Val(probe.out) = [raised |-> "", text |-> ZeroPrice]
    /\ probe.arg = PyInt(-1, 0) =>
         Val(probe.out) = [raised |-> "", text |-> <<Rupee, "-", "1", ".", "0", "0">>]

\* C10 witness: format_price(-1) has returned.
C10_Witness ==
  /\ probe.fn = "format_price"
  /\ probe.arg = PyInt(-1, 0)
  /\ IsSet(probe.out)
  /\ Val(probe.out).raised = ""

====
